---- MODULE Spec2Model ----
\* A model of the spritesheet exporter plugin: the frame-time resolver
\* (FrameTimes.set_frame_times), the frame collector (Exporter._copy_frames),
\* the grid packer and the frame placer / atlas writer of both revisions of the
\* backend, exporter.py (class Exporter) and spritesheet_exporter.py (class
\* SpritesheetExporter).
EXTENDS Integers, Sequences, FiniteSets, TLC

\* ---------------------------------------------------------------- bounds
\* Largest frame time of the enumerated documents and of the enumerated
\* user-entered start / end values.
MaxTime == 3
\* Largest user-entered step (the dialog's minimum is 1).
MaxStep == 2
\* Most layers of an enumerated document.
MaxLayers == 2
\* Most frames of an enumerated grid-packing input.
MaxFrames == 10
\* Largest user-entered rows / columns value (0 = auto).
MaxSize == 4
\* Width and height in pixels of the enumerated source documents.
DocWidth == 3
DocHeight == 2

\* ------------------------------------------------------ program constants
DEFAULT_TIME == -1
DEFAULT_SPACE == 0
\* The end setStartEndFrames assumes on a host too old to report keyframes.
OLD_VERSION_END == 100

\* --------------------------------------------------------------- helpers
Max2(a, b) == IF a >= b THEN a ELSE b
Min2(a, b) == IF a <= b THEN a ELSE b
SetMax(S) == CHOOSE m \in S : \A x \in S : x <= m
SetMin(S) == CHOOSE m \in S : \A x \in S : m <= x

\* math.ceil(a / b) for an integer a and an integer b > 0.
CeilDiv(a, b) == 0 - ((0 - a) \div b)

\* math.ceil(math.sqrt(p / q)) for integers p >= 0, q > 0: the least k whose
\* square reaches p / q.
CeilSqrtFrac(p, q) ==
    CHOOSE k \in 0..p : k * k * q >= p /\ \A j \in 0..(k - 1) : j * j * q < p

\* math.ceil(math.sqrt(n)).
CeilSqrt(n) == CeilSqrtFrac(n, 1)

\* list(range(a, b, s)) of Python, s # 0.
RECURSIVE PyRange(_, _, _)
PyRange(a, b, s) ==
    IF (s > 0 /\ a >= b) \/ (s < 0 /\ a <= b) \/ s = 0 THEN <<>>
    ELSE <<a>> \o PyRange(a + s, b, s)

\* ------------------------------------------------------------- the state
VARIABLES
    impl,       \* which backend runs: "Exporter" or "SpritesheetExporter"
    pc,         \* the position of the running operation
    doc,        \* the source document (the host's active document)
    frames,     \* Exporter.frames, the FrameTimes object: start, end, step
    exp,        \* the other fields of the Exporter object
    se,         \* the fields and locals of the SpritesheetExporter object
    sheet,      \* the spritesheet document: its size and its top-level nodes
    atlas,      \* the texture atlas: whether it is written, and its records
    in0,        \* the values the operation was entered with
    fs,         \* the file system: the directories that exist
    calls,      \* the calls made to the host document, in order
    ui          \* the dialog: whether it is enabled, and its widgets' values

vars == <<impl, pc, doc, frames, exp, se, sheet, atlas, in0, fs, calls, ui>>

\* -------------------------------------------- FrameTimes (exporter.py)
\* Node.hasKeyframeAtTime of a layer of the document.
hasKeyframeAtTime(layer, time) == time \in layer.keys

\* The layers set_frame_times keeps: visible and animated.
filtered_layers(layers) ==
    SelectSeq(layers, LAMBDA l : l.visible /\ l.animated)

\* A last-keyframe search over every keyframe of the layer, not only those
\* of the time range.
check_last_keyframe_unbounded(end, layer, hi, lo) ==
    IF layer.keys = {} THEN end ELSE Max2(end, SetMax(layer.keys))

\* FrameTimes._check_last_keyframe over times = range(hi, lo - 1, -1): the
\* first time of the descending range that has a keyframe raises end.
check_last_keyframe(end, layer, hi, lo) ==
    LET hits == {t \in lo..hi : hasKeyframeAtTime(layer, t)}
    IN  IF hits = {} THEN end ELSE Max2(end, SetMax(hits))

\* FrameTimes._check_first_keyframe over times = range(lo, hi + 1): the first
\* time of the ascending range that has a keyframe lowers start.
check_first_keyframe(start, layer, lo, hi) ==
    LET hits == {t \in lo..hi : hasKeyframeAtTime(layer, t)}
    IN  IF hits = {} THEN start ELSE Min2(start, SetMin(hits))

\* The loop over the filtered layers that finds the end (lines 113-118).
RECURSIVE scan_end(_, _, _, _, _)
scan_end(end, layers, i, end_time, start_time) ==
    IF i > Len(layers) THEN end
    ELSE LET e == check_last_keyframe(end, layers[i], end_time, start_time)
         IN  IF e >= end_time THEN e
             ELSE scan_end(e, layers, i + 1, end_time, start_time)

\* The loop over the filtered layers that finds the start (lines 124-128).
RECURSIVE scan_start(_, _, _, _, _)
scan_start(start, layers, i, start_time, hi) ==
    IF i > Len(layers) THEN start
    ELSE LET s == check_first_keyframe(start, layers[i], start_time, hi)
         IN  IF s <= start_time THEN s
             ELSE scan_start(s, layers, i + 1, start_time, hi)

\* A resolver without the early return for entered bounds.
never_explicit(ft) == FALSE

\* Whether set_frame_times returns at once: neither bound is default (lines
\* 78-82).
both_explicit(ft) == ft.start # DEFAULT_TIME /\ ft.end # DEFAULT_TIME

\* A resolver that swaps the nominal bounds and leaves the step as it is.
swapped_step_kept(step, swap) == step

\* The step after the swap of the nominal bounds (lines 104-107): a positive
\* step is made negative when the nominal start is greater than the nominal end.
swapped_step(step, swap) == IF swap /\ step > 0 THEN step * (-1) ELSE step

\* A default start that is set to the nominal end instead of the resolved end.
start_seed_nominal(end, end_time) == end_time

\* The value a default start is set to before the layers are scanned (line
\* 121): the end as resolved so far, not the nominal end.
start_seed(end, end_time) == end

\* FrameTimes.set_frame_times: the FrameTimes after the call.
set_frame_times(ft, d) ==
    LET def_start == ft.start = DEFAULT_TIME
        def_end == ft.end = DEFAULT_TIME
        start_time0 == IF def_start THEN d.clipStart ELSE ft.start
        end_time0 == IF def_end THEN d.clipEnd ELSE ft.end
        filtered == filtered_layers(d.layers)
        swap == start_time0 > end_time0
        start_time == IF swap THEN end_time0 ELSE start_time0
        end_time == IF swap THEN start_time0 ELSE end_time0
        step == swapped_step(ft.step, swap)
        end == IF def_end
               THEN scan_end(start_time, filtered, 1, end_time, start_time)
               ELSE ft.end
        start == IF def_start
                 THEN scan_start(start_seed(end, end_time), filtered, 1,
                                 start_time, end)
                 ELSE ft.start
    IN  IF both_explicit(ft) THEN ft
        ELSE IF start_time0 = end_time0
        THEN [ft EXCEPT !.start = start_time0, !.end = start_time0]
        ELSE IF Len(filtered) = 0
        THEN [ft EXCEPT !.end = 0, !.start = 0]
        ELSE [start |-> start, end |-> end, step |-> step]

\* ------------------------------------------------ Exporter (exporter.py)
\* Document.pixelData of the source document at its current time.
pixelData(d) == d.pixels[d.currentTime]

\* Document.setCurrentTime followed by Document.waitForDone.
setCurrentTime(d, time) == [d EXCEPT !.currentTime = time]

\* A frame loop that leaves the document at the last time it visited.
reset_time_skipped(d, initial_time) == d

\* The last statement of the timeline branch of _copy_frames (line 235):
\* src.setCurrentTime(initial_time).
reset_time(d, initial_time) == setCurrentTime(d, initial_time)

\* The padded sprite size of _process_frames and export (lines 246-247,
\* 311-312).
padded_width(d, pad) == d.width + pad.left + pad.right
padded_height(d, pad) == d.height + pad.top + pad.bottom

\* The frame loop of _copy_frames (lines 219-233) over the times still to
\* visit: the nodes added to the sheet, given the nodes and the pixel set so
\* far. A frame whose pixel data is already in the pixel set is skipped.
RECURSIVE copy_loop(_, _, _, _, _)
copy_loop(d, times, unique, pixel_set, nodes) ==
    IF times = <<>> THEN nodes
    ELSE LET i == Head(times)
             pixel_data == pixelData(setCurrentTime(d, i))
             layer == [name |-> i, pixel |-> pixel_data, x |-> 0, y |-> 0]
         IN  IF unique /\ pixel_data \in pixel_set
             THEN copy_loop(d, Tail(times), unique, pixel_set, nodes)
             ELSE copy_loop(d, Tail(times), unique,
                            pixel_set \cup {pixel_data}, Append(nodes, layer))

\* Directory paths: a name and the numbers appended to it.
DefaultPath == [base |-> "spritesheetExportKritaTmp", tail |-> <<>>]
SheetSprites == [base |-> "Spritesheet_sprites", tail |-> <<>>]
CustomDir == [base |-> "custom", tail |-> <<>>]

\* exportCandidate of SpritesheetExporter.export (lines 162-163): the folder
\* name with exportNum appended.
exportCandidate(dir, exportNum) == [dir EXCEPT !.tail = @ \o <<exportNum>>]

\* A probing loop that never runs: exportNum stays 0.
first_free_unprobed(dir, dirs) == 0

\* The exportNum the probing loop stops at (lines 167-168): the least number
\* whose candidate does not exist.
first_free(dir, dirs) ==
    CHOOSE k \in 0..Cardinality(dirs) :
        /\ exportCandidate(dir, k) \notin dirs
        /\ \A j \in 0..(k - 1) : exportCandidate(dir, j) \in dirs

\* Node.childNodes of node p of the document (0 = the root node): the indices
\* of its children, in stacking order.
childNodes(layers, p) ==
    SelectSeq([i \in 1..Len(layers) |-> i], LAMBDA i : layers[i].parent = p)

\* utils._recurse_children and utils._filter_recurse_children over the list
\* idxs of sibling nodes: every node (type = "") or every node of the type,
\* each followed by the nodes below it.
RECURSIVE recurse_nodes(_, _, _)
recurse_nodes(layers, idxs, type) ==
    IF idxs = <<>> THEN <<>>
    ELSE LET child == Head(idxs)
         IN  (IF type = "" \/ layers[child].type = type
              THEN <<child>> ELSE <<>>)
                 \o recurse_nodes(layers, childNodes(layers, child), type)
                 \o recurse_nodes(layers, Tail(idxs), type)

\* Node.findChildNodes("", True) of the host on the root node: every node
\* below it, of whatever type, depth first.
findChildNodes(layers) == recurse_nodes(layers, childNodes(layers, 0), "")

\* KritaVersion.recurse_children on the root node (utils.py lines 60-76): with
\* can_find_child_nodes the host's findChildNodes is called without the type.
recurse_children(layers, can_find_child_nodes, type) ==
    IF can_find_child_nodes THEN findChildNodes(layers)
    ELSE recurse_nodes(layers, childNodes(layers, 0), type)

\* A frame loop that forgets the pixel data it has seen.
layers_loop_forgetful(layers, idxs, i, unique, pixel_set, nodes) ==
    [k \in 1..Len(idxs) |->
        [name |-> k - 1, pixel |-> layers[idxs[k]].pixel, x |-> 0, y |-> 0]]

\* The layer loop of _copy_frames (lines 201-211) over the visible layers
\* still to visit, i counting them from 0: the nodes added to the sheet.
RECURSIVE layers_loop(_, _, _, _, _, _)
layers_loop(layers, idxs, i, unique, pixel_set, nodes) ==
    IF idxs = <<>> THEN nodes
    ELSE LET pixel_data == layers[Head(idxs)].pixel
             new_layer == [name |-> i, pixel |-> pixel_data, x |-> 0, y |-> 0]
         IN  IF unique /\ pixel_data \in pixel_set
             THEN layers_loop(layers, Tail(idxs), i + 1, unique, pixel_set,
                              nodes)
             ELSE layers_loop(layers, Tail(idxs), i + 1, unique,
                              pixel_set \cup {pixel_data},
                              Append(nodes, new_layer))

\* The calls one turn of the frame loop makes to the source document (lines
\* 220-224), without the wait.
frame_calls_unwaited(i) == <<<<"setCurrentTime", i>>, <<"pixelData">>>>

\* The calls one turn of the frame loop makes to the source document (lines
\* 220-224).
frame_calls(i) == <<<<"setCurrentTime", i>>, <<"waitForDone">>, <<"pixelData">>>>

\* The calls of the whole frame loop.
RECURSIVE loop_calls(_)
loop_calls(times) ==
    IF times = <<>> THEN <<>>
    ELSE frame_calls(Head(times)) \o loop_calls(Tail(times))

\* The directory the frames go to when no custom directory is set:
\* export_path with the name stem + "_sprites".
ExportSprites == [base |-> "spritesheet_sprites", tail |-> <<>>]

\* A _make_frames_dir that makes a new directory whenever one exists.
make_frames_dir_always_new(frame_export, dirs) ==
    LET dir == IF frame_export.custom_dir THEN CustomDir ELSE ExportSprites
        made == IF dir \in dirs
                THEN exportCandidate(dir, first_free(dir, dirs))
                ELSE dir
    IN  [dir |-> made, dirs |-> dirs \cup {made}]

\* Exporter._make_frames_dir (lines 150-175): the directory returned and the
\* directories that exist afterwards.
make_frames_dir(frame_export, dirs) ==
    LET dir == IF frame_export.custom_dir THEN CustomDir ELSE ExportSprites
        made == IF dir \in dirs /\ frame_export.force_new
                THEN exportCandidate(dir, first_free(dir, dirs))
                ELSE dir
    IN  [dir |-> made, dirs |-> dirs \cup {made}]

\* A packer whose square fit drops the empty rows: rows = ceil(n / size).
pack_dense(columns, rows, num_frames) ==
    IF columns # DEFAULT_SPACE
    THEN LET c == Min2(columns, num_frames)
         IN  <<c, CeilDiv(num_frames, c)>>
    ELSE IF rows # DEFAULT_SPACE
    THEN LET r == Min2(rows, num_frames)
         IN  <<CeilDiv(num_frames, r), r>>
    ELSE LET size == CeilSqrt(num_frames)
         IN  <<size, IF size = 0 THEN 0 ELSE CeilDiv(num_frames, size)>>

\* A packer that does not clamp a fixed columns value to the frame count.
pack_unclamped(columns, rows, num_frames) ==
    IF columns # DEFAULT_SPACE
    THEN <<columns, CeilDiv(num_frames, columns)>>
    ELSE IF rows # DEFAULT_SPACE
    THEN LET r == Min2(rows, num_frames)
         IN  <<CeilDiv(num_frames, r), r>>
    ELSE LET size == CeilSqrt(num_frames)
         IN  <<size, size>>

\* A packer that derives the columns by integer division instead of ceil.
pack_floor_columns(columns, rows, num_frames) ==
    IF columns # DEFAULT_SPACE
    THEN LET c == Min2(columns, num_frames)
         IN  <<c, CeilDiv(num_frames, c)>>
    ELSE IF rows # DEFAULT_SPACE
    THEN LET r == Min2(rows, num_frames)
         IN  <<num_frames \div r, r>>
    ELSE LET size == CeilSqrt(num_frames)
         IN  <<size, size>>

\* The grid of Exporter.export (lines 346-357) for num_frames >= 1 frames:
\* <<columns, rows>>.
pack(columns, rows, num_frames) ==
    IF columns # DEFAULT_SPACE
    THEN LET c == Min2(columns, num_frames)
         IN  <<c, CeilDiv(num_frames, c)>>
    ELSE IF rows # DEFAULT_SPACE
    THEN LET r == Min2(rows, num_frames)
         IN  <<CeilDiv(num_frames, r), r>>
    ELSE LET size == CeilSqrt(num_frames)
         IN  <<size, size>>

\* Whether the grid computation divides by zero: a fixed columns or rows
\* value clamped to no frames at all.
pack_divides_by_zero(columns, rows, num_frames) ==
    (columns # DEFAULT_SPACE \/ rows # DEFAULT_SPACE) /\ num_frames = 0

\* A placement that wraps at the end of a line without advancing to the next.
frame_position_one_line(horizontal, columns, rows, i, width, height) ==
    IF horizontal
    THEN <<(i % columns) * width, 0>>
    ELSE <<0, (i % rows) * height>>

\* The position _process_frames moves the i-th top-level node to (lines
\* 270-275), i counted from 0: <<x_pos, y_pos>>.
frame_position(horizontal, columns, rows, i, width, height) ==
    IF horizontal
    THEN <<(i % columns) * width, (i \div columns) * height>>
    ELSE <<(i \div rows) * width, (i % rows) * height>>

\* An atlas record with x and y exchanged.
atlas_record_swapped(i, pos, width, height) ==
    [filename |-> i, x |-> pos[2], y |-> pos[1], w |-> width, h |-> height]

\* The atlas record _process_frames appends for the i-th node (lines 280-290).
atlas_record(i, pos, width, height) ==
    [filename |-> i, x |-> pos[1], y |-> pos[2], w |-> width, h |-> height]

\* Exporter.export up to the creation of the sheet document (lines 302-335):
\* without an active document it returns.
ExportStart ==
    /\ impl = "Exporter"
    /\ pc = "export"
    /\ IF ~doc.active
       THEN /\ pc' = "returned"
            /\ sheet' = sheet
       ELSE /\ pc' = "copy_frames"
            /\ sheet' = [width |-> padded_width(doc, exp.pad),
                         height |-> padded_height(doc, exp.pad),
                         nodes |-> <<>>]
    /\ UNCHANGED <<impl, doc, frames, exp, se, atlas, in0, fs, calls, ui>>

\* Exporter._copy_frames (lines 185-235). Layers branch: one node per visible
\* layer that recurse_children returns. Timeline branch: resolve the default
\* bounds, visit range(start, end + 1, step), reset the current time.
CopyFrames ==
    /\ impl = "Exporter"
    /\ pc = "copy_frames"
    /\ LET ft == IF frames.end = DEFAULT_TIME \/ frames.start = DEFAULT_TIME
                 THEN set_frame_times(frames, doc)
                 ELSE frames
           initial_time == doc.currentTime
           times == PyRange(ft.start, ft.end + 1, ft.step)
           paint_layers == recurse_children(doc.layers,
                               exp.can_find_child_nodes, "paintlayer")
           visible_layers == SelectSeq(paint_layers,
                                 LAMBDA i : doc.layers[i].visible)
       IN  IF exp.layers_as_animation
           THEN /\ pc' = "pack"
                /\ sheet' = [sheet EXCEPT !.nodes =
                       layers_loop(doc.layers, visible_layers, 0,
                                   exp.unique_frames, {}, <<>>)]
                /\ calls' = calls \o [k \in 1..Len(visible_layers) |->
                                          <<"Node.pixelData", visible_layers[k]>>]
                /\ UNCHANGED <<frames, doc>>
           ELSE /\ frames' = ft
                /\ IF ft.step = 0
                   THEN /\ pc' = "ValueError"
                        /\ UNCHANGED <<sheet, doc, calls>>
                   ELSE /\ pc' = "pack"
                        /\ sheet' = [sheet EXCEPT !.nodes =
                               copy_loop(doc, times, exp.unique_frames, {},
                                         <<>>)]
                        /\ doc' = reset_time(
                               IF times = <<>> THEN doc
                               ELSE setCurrentTime(doc, times[Len(times)]),
                               initial_time)
                        /\ calls' = calls \o <<<<"currentTime">>>>
                               \o loop_calls(times)
                               \o <<<<"setCurrentTime", initial_time>>>>
    /\ UNCHANGED <<impl, exp, se, atlas, in0, fs, ui>>

\* Exporter.export, the grid and the sheet size (lines 344-360).
Pack ==
    /\ impl = "Exporter"
    /\ pc = "pack"
    /\ LET num_frames == Len(sheet.nodes)
           grid == pack(exp.columns, exp.rows, num_frames)
       IN  IF pack_divides_by_zero(exp.columns, exp.rows, num_frames)
           THEN /\ pc' = "ZeroDivisionError"
                /\ UNCHANGED <<exp, sheet>>
           ELSE /\ pc' = "process_frames"
                /\ exp' = [exp EXCEPT !.columns = grid[1], !.rows = grid[2]]
                /\ sheet' = [sheet EXCEPT
                       !.width = grid[1] * padded_width(doc, exp.pad),
                       !.height = grid[2] * padded_height(doc, exp.pad)]
    /\ UNCHANGED <<impl, doc, frames, se, atlas, in0, fs, calls, ui>>

\* Exporter._process_frames (lines 246-294): make the frames directory when
\* the image sequence is exported, move every top-level node of the sheet to
\* its cell and, when enabled, record it in the texture atlas. With a frames
\* directory the file name of the first node reads self.export_path.base_name
\* (line 256), which a Path does not have: AttributeError. The log gets the
\* answer of dir.exists() and the directory _make_frames_dir returns.
ProcessFrames ==
    /\ impl = "Exporter"
    /\ pc = "process_frames"
    /\ LET width == padded_width(doc, exp.pad)
           height == padded_height(doc, exp.pad)
           pos(i) == frame_position(exp.horizontal, exp.columns, exp.rows,
                                    i, width, height)
           n == Len(sheet.nodes)
           made == make_frames_dir(exp.frame_export, fs)
           dir == IF exp.frame_export.custom_dir THEN CustomDir
                  ELSE ExportSprites
       IN  /\ fs' = IF exp.frame_export.set THEN made.dirs ELSE fs
           /\ calls' = IF exp.frame_export.set
                       THEN calls \o <<<<"exists", dir, dir \in fs>>,
                                       <<"_make_frames_dir", made.dir>>>>
                       ELSE calls
           /\ IF exp.frame_export.set /\ n > 0
              THEN /\ pc' = "AttributeError"
                   /\ UNCHANGED <<sheet, atlas>>
              ELSE /\ pc' = "done"
                   /\ sheet' = [sheet EXCEPT !.nodes =
                          [k \in 1..n |-> [sheet.nodes[k] EXCEPT
                              !.x = pos(k - 1)[1], !.y = pos(k - 1)[2]]]]
                   /\ atlas' = IF exp.write_texture_atlas
                               THEN [written |-> TRUE,
                                     frames |-> [k \in 1..n |->
                                         atlas_record(k - 1, pos(k - 1),
                                                      width, height)]]
                               ELSE atlas
    /\ UNCHANGED <<impl, doc, frames, exp, se, in0, ui>>

\* ---------------------- SpritesheetExporter (spritesheet_exporter.py)
\* SpritesheetExporter.checkLayer (lines 40-62) on layer i, and on the list
\* idxs of layers one after the other: s with start or end updated. An
\* invisible layer returns at once, its children unvisited; the start scan
\* runs from time 0 up to the clip end, the end scan from the clip end down
\* to time 0.
RECURSIVE checkLayer(_, _, _, _)
RECURSIVE checkLayers(_, _, _, _)
checkLayer(s, d, i, start) ==
    LET layer == d.layers[i]
        hits == {t \in 0..d.clipEnd : hasKeyframeAtTime(layer, t)}
        first == IF hits = {} THEN d.clipEnd + 1 ELSE SetMin(hits)
        last == IF hits = {} THEN -1 ELSE SetMax(hits)
        s1 == IF ~layer.animated THEN s
              ELSE IF start
              THEN (IF s.start > first THEN [s EXCEPT !.start = first] ELSE s)
              ELSE (IF s.end < last THEN [s EXCEPT !.end = last] ELSE s)
    IN  IF ~layer.visible THEN s
        ELSE checkLayers(s1, d, childNodes(d.layers, i), start)

checkLayers(s, d, idxs, start) ==
    IF idxs = <<>> THEN s
    ELSE checkLayers(checkLayer(s, d, Head(idxs), start), d, Tail(idxs),
                     start)

\* SpritesheetExporter.setStartEndFrames (lines 71-98): s with the default
\* bounds replaced.
setStartEndFrames(s, d) ==
    LET layers == childNodes(d.layers, 0)
        s1 == IF s.end # DEFAULT_TIME THEN s
              ELSE IF d.newVersion
              THEN checkLayers(s, d, layers, FALSE)
              ELSE [s EXCEPT !.end = OLD_VERSION_END]
        s2 == IF s1.start # DEFAULT_TIME THEN s1
              ELSE IF d.newVersion
              THEN checkLayers([s1 EXCEPT !.start = s1.end], d, layers, TRUE)
              ELSE [s1 EXCEPT !.start = 0]
    IN  IF ~d.active THEN s ELSE s2

\* The frame count the grid is sized for, framesNum - self.offLayers, as the
\* fraction <<p, q>>: framesNum is the float ((end + 1) - start) / step in
\* timeline mode and len(self.layersList) in layers mode.
se_count(s) == <<s.framesNum[1] - s.offLayers * s.framesNum[2], s.framesNum[2]>>

\* A square fit that sets rows to the columns: rows = columns = ceil(sqrt(n)).
se_pack_square(columns, rows, p, q) ==
    IF rows = DEFAULT_SPACE /\ columns = DEFAULT_SPACE
    THEN LET c == CeilSqrtFrac(p, q)
         IN  <<c, c>>
    ELSE IF rows = DEFAULT_SPACE
    THEN <<columns, CeilDiv(p, q * columns)>>
    ELSE IF columns = DEFAULT_SPACE
    THEN LET c == CeilDiv(p, q * rows)
         IN  <<c, CeilDiv(p, q * c)>>
    ELSE <<columns, rows>>

\* The rows and columns of SpritesheetExporter.export (lines 268-289) for the
\* frame count p / q > 0: <<columns, rows>>. With both values entered neither
\* branch runs and both stay as entered.
se_pack(columns, rows, p, q) ==
    IF rows = DEFAULT_SPACE /\ columns = DEFAULT_SPACE
    THEN LET c == CeilSqrtFrac(p, q)
         IN  <<c, CeilDiv(p, q * c)>>
    ELSE IF rows = DEFAULT_SPACE
    THEN <<columns, CeilDiv(p, q * columns)>>
    ELSE IF columns = DEFAULT_SPACE
    THEN LET c == CeilDiv(p, q * rows)
         IN  <<c, CeilDiv(p, q * c)>>
    ELSE <<columns, rows>>

\* Whether that computation divides by zero: the columns it derives are 0
\* (no frame to size the grid for, or a count of at most 0).
se_pack_divides_by_zero(columns, rows, p, q) ==
    /\ columns = DEFAULT_SPACE
    /\ IF rows = DEFAULT_SPACE THEN p = 0 ELSE CeilDiv(p, q * rows) = 0

\* Whether sqrt raises ValueError: a square fit for a negative count.
se_pack_math_error(columns, rows, p) ==
    rows = DEFAULT_SPACE /\ columns = DEFAULT_SPACE /\ p < 0

\* SpritesheetExporter.positionLayer (lines 33-38) for imgNum = num / den, the
\* float export passes: <<x, y>> = <<int((imgNum % distance) * width),
\* int((imgNum // distance) * height)>>, computed exactly (the floats are exact
\* where den is a power of two).
positionLayer(isHorizontal, columns, rows, num, den, width, height) ==
    LET distance == IF isHorizontal THEN columns ELSE rows
    IN  <<((num % (den * distance)) * width) \div den,
          (num \div (den * distance)) * height>>

\* The placing loop of SpritesheetExporter.export (lines 326-372) from
\* frameIDNum on: <<nodes, atlas records>> after the loop.
RECURSIVE se_place_loop(_, _, _, _, _, _, _)
se_place_loop(s, frameIDNum, invisibleLayersNum, nodes, records, width, height) ==
    IF frameIDNum > s.end THEN <<nodes, records>>
    ELSE IF ~s.layersAsAnimation \/ s.layersStates[frameIDNum + 1]
    THEN LET pos == positionLayer(s.isHorizontal, s.columns, s.rows,
                        (frameIDNum - invisibleLayersNum) - s.start, s.step,
                        width, height)
             layer == [name |-> frameIDNum, x |-> pos[1], y |-> pos[2]]
             record == [filename |-> frameIDNum, x |-> layer.x, y |-> layer.y,
                        w |-> width, h |-> height]
         IN  se_place_loop(s, frameIDNum + s.step, invisibleLayersNum,
                 Append(nodes, layer),
                 IF s.writeTextureAtlas THEN Append(records, record)
                 ELSE records,
                 width, height)
    ELSE se_place_loop(s, frameIDNum + s.step, invisibleLayersNum + 1,
             nodes, records, width, height)

\* The sprites directory of SpritesheetExporter.export (lines 150-178): the
\* directory used, whether it was created, and the directories afterwards.
se_sprites_dir(s, dirs) ==
    LET d0 == IF s.spritesExportDir = DefaultPath THEN SheetSprites
              ELSE s.spritesExportDir
        d1 == IF s.forceNew /\ d0 \in dirs
              THEN exportCandidate(d0, first_free(d0, dirs))
              ELSE d0
    IN  [dir |-> d1, added |-> d1 \notin dirs, dirs |-> dirs \cup {d1}]

\* SpritesheetExporter.export from its start to line 253: the lists are
\* cleared, the sprites directory is made, the frames are exported. Without an
\* active document doc is None and doc.setBatchmode raises AttributeError.
\* exportFrame takes two arguments and getLayerState one; both are called with
\* one more (lines 206, 217, 235), which raises TypeError at the first frame
\* or layer. The time the host reports after setCurrentTime of a negative time
\* is that time or 0.
SE_Export ==
    /\ impl = "SpritesheetExporter"
    /\ pc = "se_export"
    /\ LET made == se_sprites_dir(se, fs)
           s0 == [se EXCEPT !.layersStates = <<>>, !.offLayers = 0,
                            !.spritesExportDir = made.dir,
                            !.addedFolder = made.added]
           s1 == IF s0.end = DEFAULT_TIME \/ s0.start = DEFAULT_TIME
                 THEN setStartEndFrames(s0, doc)
                 ELSE s0
           s2 == [s1 EXCEPT !.framesNum = <<(s1.end + 1) - s1.start, s1.step>>]
       IN  /\ fs' = made.dirs
           /\ IF ~doc.active
              THEN /\ pc' = "AttributeError"
                   /\ se' = s0
                   /\ UNCHANGED <<doc, calls>>
              ELSE IF ~s0.layersAsAnimation
              THEN \E cur \in {s1.start, Max2(s1.start, 0)} :
                       /\ doc' = setCurrentTime(doc, cur)
                       /\ calls' = calls \o <<<<"setBatchmode">>,
                                               <<"setCurrentTime", s1.start>>,
                                               <<"currentTime">>>>
                       /\ se' = s2
                       /\ pc' = IF cur <= s1.end THEN "TypeError"
                                ELSE "se_pack"
              ELSE /\ calls' = calls \o <<<<"setBatchmode">>>>
                   /\ doc' = doc
                   /\ IF childNodes(doc.layers, 0) # <<>>
                      THEN /\ pc' = "TypeError"
                           /\ se' = s0
                      ELSE /\ pc' = "se_pack"
                           /\ se' = [s0 EXCEPT !.framesNum = <<0, 1>>,
                                               !.start = 0, !.end = -1]
    /\ UNCHANGED <<impl, frames, exp, sheet, atlas, in0, ui>>

\* SpritesheetExporter.export, the grid and the new sheet document (lines
\* 257-300).
SE_Pack ==
    /\ impl = "SpritesheetExporter"
    /\ pc = "se_pack"
    /\ LET cnt == se_count(se)
           grid == se_pack(se.columns, se.rows, cnt[1], cnt[2])
       IN  IF se_pack_math_error(se.columns, se.rows, cnt[1])
           THEN /\ pc' = "ValueError"
                /\ UNCHANGED <<se, sheet>>
           ELSE IF se_pack_divides_by_zero(se.columns, se.rows, cnt[1], cnt[2])
           THEN /\ pc' = "ZeroDivisionError"
                /\ UNCHANGED <<se, sheet>>
           ELSE /\ pc' = "se_place"
                /\ se' = [se EXCEPT !.columns = grid[1], !.rows = grid[2]]
                /\ sheet' = [width |-> grid[1] * doc.width,
                             height |-> grid[2] * doc.height,
                             nodes |-> <<>>]
    /\ UNCHANGED <<impl, doc, frames, exp, atlas, in0, fs, calls, ui>>

\* The first frame the placing loop places whose image file does not exist
\* while removeTmp is set, so that Path(img).unlink() raises (line 348); the
\* time after the end when there is none.
RECURSIVE se_unlink_fails(_, _)
se_unlink_fails(s, frameIDNum) ==
    IF frameIDNum > s.end THEN s.end + 1
    ELSE IF /\ ~s.layersAsAnimation \/ s.layersStates[frameIDNum + 1]
            /\ s.removeTmp
            /\ frameIDNum \notin s.exported
    THEN frameIDNum
    ELSE se_unlink_fails(s, frameIDNum + s.step)

\* SpritesheetExporter.export, the placing loop, the atlas and the removal of
\* the sprites directory it added (lines 319-387).
SE_Place ==
    /\ impl = "SpritesheetExporter"
    /\ pc = "se_place"
    /\ LET frameIDNum == IF se.layersAsAnimation THEN 0 ELSE se.start
           stop == se_unlink_fails(se, frameIDNum)
           out == se_place_loop([se EXCEPT !.end = Min2(stop, se.end)],
                                frameIDNum, 0, <<>>, <<>>,
                                doc.width, doc.height)
       IN  /\ sheet' = [sheet EXCEPT !.nodes = out[1]]
           /\ IF stop <= se.end
              THEN /\ pc' = "FileNotFoundError"
                   /\ UNCHANGED <<atlas, fs>>
              ELSE /\ pc' = "se_done"
                   /\ atlas' = [written |-> se.writeTextureAtlas,
                                frames |-> out[2]]
                   /\ fs' = IF se.removeTmp /\ se.addedFolder
                            THEN fs \ {se.spritesExportDir}
                            ELSE fs
    /\ UNCHANGED <<impl, doc, frames, exp, se, in0, calls, ui>>

\* ---------------------------------------------------- enumerated inputs
Times == 0..MaxTime
UserTimes == {DEFAULT_TIME} \cup Times
Steps == 1..MaxStep
Sizes == DEFAULT_SPACE..MaxSize

\* The keyframe sets of a layer: none, or a first and a last keyframe.
KeySets == {{}} \cup {{a, b} : a, b \in Times}
\* A layer: its own flags and keyframes, its node type, and its parent in the
\* node tree (0 = the root node; the list of a document is in depth-first
\* order, as findChildNodes and recurse_children return it).
Layers ==
    [visible : BOOLEAN, animated : BOOLEAN, keys : KeySets,
     type : {"paintlayer"}, parent : {0}, pixel : {0}]
\* A visible animated layer with a single keyframe.
KeyLayers ==
    {[visible |-> TRUE, animated |-> TRUE, keys |-> {a},
      type |-> "paintlayer", parent |-> 0, pixel |-> 0] : a \in Times}
\* Layer lists: an arbitrary first layer, single-keyframe layers after it.
LayerLists ==
    {<<>>} \cup
    UNION {{<<l>> \o rest : l \in Layers, rest \in [1..n -> KeyLayers]} :
           n \in 0..(MaxLayers - 1)}

\* Every frame time a document is asked the pixels of.
PixelTimes == 0..Max2(Max2(MaxTime, MaxFrames), 10)
\* Pixel contents that differ at every time.
DistinctPixels == [t \in PixelTimes |-> t]

Doc(clipStart, clipEnd, layers) ==
    [active |-> TRUE, width |-> DocWidth, height |-> DocHeight,
     clipStart |-> clipStart, clipEnd |-> clipEnd, currentTime |-> 0,
     layers |-> layers, pixels |-> DistinctPixels, newVersion |-> TRUE]

\* Per-edge paddings: none, padding, clipping.
Pads ==
    {[left |-> 0, top |-> 0, right |-> 0, bottom |-> 0],
     [left |-> 1, top |-> 0, right |-> 2, bottom |-> 1],
     [left |-> -1, top |-> 1, right |-> 0, bottom |-> 0]}

NoPad == [left |-> 0, top |-> 0, right |-> 0, bottom |-> 0]
\* Exporter.frame_export when no image sequence is exported (None).
NoFrameExport == [set |-> FALSE, custom_dir |-> FALSE, force_new |-> FALSE]
\* The attributes apply_settings adds to the exporter object beside the
\* fields of the dataclass (ui.py lines 124-135, 219-221, 238-241): none
\* before the first confirm.
NoExtra ==
    [applied |-> FALSE, start |-> DEFAULT_TIME, end |-> DEFAULT_TIME,
     step |-> 1, pad_left |-> 0, pad_top |-> 0, pad_right |-> 0,
     pad_bottom |-> 0, export_frame_sequence |-> FALSE,
     base_name |-> "sprite", custom_frames_dir |-> FALSE,
     force_new |-> FALSE]
\* An Exporter as the dialog's initial values configure it, on a host that has
\* Node.findChildNodes; export_path is "sheet.png" in an existing directory.
AutoExp ==
    [unique_frames |-> FALSE, horizontal |-> TRUE, columns |-> DEFAULT_SPACE,
     rows |-> DEFAULT_SPACE, pad |-> NoPad, write_texture_atlas |-> FALSE,
     layers_as_animation |-> FALSE, frame_export |-> NoFrameExport,
     can_find_child_nodes |-> TRUE, extra |-> NoExtra]
AutoFrames == [start |-> DEFAULT_TIME, end |-> DEFAULT_TIME, step |-> 1]
\* The class attributes of SpritesheetExporter (lines 16-31).
AutoSe ==
    [isHorizontal |-> TRUE, rows |-> DEFAULT_SPACE, columns |-> DEFAULT_SPACE,
     start |-> DEFAULT_TIME, end |-> DEFAULT_TIME, step |-> 1,
     layersAsAnimation |-> FALSE, writeTextureAtlas |-> FALSE,
     layersStates |-> <<>>, offLayers |-> 0, framesNum |-> <<0, 1>>,
     forceNew |-> FALSE, removeTmp |-> TRUE, spritesExportDir |-> DefaultPath,
     addedFolder |-> FALSE, exported |-> {}]
NoSheet == [width |-> 0, height |-> 0, nodes |-> <<>>]
NoAtlas == [written |-> FALSE, frames |-> <<>>]
\* The values a run of the export used: none yet.
NoRun == [start |-> DEFAULT_TIME, end |-> DEFAULT_TIME, step |-> 1,
          rows |-> DEFAULT_SPACE, columns |-> DEFAULT_SPACE,
          dir |-> DefaultPath]
\* The values of the dialog's widgets as the dialog is built.
DefaultWidgets ==
    [start |-> DEFAULT_TIME, end |-> DEFAULT_TIME, step |-> 1,
     rows |-> DEFAULT_SPACE, columns |-> DEFAULT_SPACE, pad |-> NoPad,
     frames_checked |-> FALSE, base_name |-> "sprite",
     custom_dir |-> FALSE, force_new |-> FALSE]
\* The dialog before it is first shown: enabled and hidden, no export in
\* progress, no run made; events_in_export tells whether the host dispatches
\* events while an export runs.
NoDialog ==
    [enabled |-> TRUE, visible |-> FALSE, exporting |-> 0,
     events_in_export |-> FALSE, widgets |-> DefaultWidgets, runs |-> 0,
     used |-> NoRun, fresh |-> NoRun]

Entered(ft, rows, columns) ==
    [start |-> ft.start, end |-> ft.end, step |-> ft.step,
     rows |-> rows, columns |-> columns]

\* ------------------------------------------- the resolver on its own
\* Both bounds entered: the frame times of the spec's two examples too.
ExplicitFrames ==
    [start : Times, end : Times, step : Steps]
        \cup {[start |-> 10, end |-> 2, step |-> 1],
              [start |-> 5, end |-> 5, step |-> 1]}
\* At least one bound left to the document.
DefaultFrames ==
    {ft \in [start : UserTimes, end : UserTimes, step : Steps] :
        ft.start = DEFAULT_TIME \/ ft.end = DEFAULT_TIME}

InitResolveExporter ==
    /\ impl = "Exporter"
    /\ pc = "set_frame_times"
    /\ \E cs \in Times, ce \in Times, ls \in LayerLists :
           doc = Doc(cs, ce, ls)
    /\ \/ frames \in DefaultFrames
       \/ frames \in ExplicitFrames /\ Len(doc.layers) <= 1
    /\ se = AutoSe
    /\ in0 = Entered(frames, DEFAULT_SPACE, DEFAULT_SPACE)

\* Node trees for setStartEndFrames: no layer, one arbitrary layer, or one
\* arbitrary layer followed by a single-keyframe layer that is its child or its
\* sibling.
LayerTrees ==
    {<<>>} \cup {<<l>> : l \in Layers}
        \cup {<<l, [k EXCEPT !.parent = p]>> :
                  l \in Layers, k \in KeyLayers, p \in 0..1}

\* The documents and bounds setStartEndFrames is called on: a host that
\* reports keyframes with every tree, an older host with no layer.
InitResolveSe ==
    /\ impl = "SpritesheetExporter"
    /\ pc = "setStartEndFrames"
    /\ \E ce \in Times, ls \in LayerTrees, new \in BOOLEAN :
           /\ new \/ ls = <<>>
           /\ doc = [Doc(0, ce, ls) EXCEPT !.newVersion = new]
    /\ frames = AutoFrames
    /\ \E ft \in [start : UserTimes, end : UserTimes, step : Steps] :
           se = [AutoSe EXCEPT !.start = ft.start, !.end = ft.end,
                               !.step = ft.step]
    /\ in0 = Entered(se, se.rows, se.columns)

InitResolve ==
    /\ InitResolveExporter \/ InitResolveSe
    /\ exp = AutoExp
    /\ sheet = NoSheet
    /\ atlas = NoAtlas
    /\ fs = {}
    /\ calls = <<>>
    /\ ui = NoDialog

\* The call of FrameTimes.set_frame_times on the enumerated FrameTimes.
SetFrameTimes ==
    /\ impl = "Exporter"
    /\ pc = "set_frame_times"
    /\ frames' = set_frame_times(frames, doc)
    /\ pc' = "resolved"
    /\ UNCHANGED <<impl, doc, exp, se, sheet, atlas, in0, fs, calls, ui>>

\* The call of SpritesheetExporter.setStartEndFrames on the enumerated bounds.
SE_SetStartEndFrames ==
    /\ impl = "SpritesheetExporter"
    /\ pc = "setStartEndFrames"
    /\ se' = setStartEndFrames(se, doc)
    /\ pc' = "se_resolved"
    /\ UNCHANGED <<impl, doc, frames, exp, sheet, atlas, in0, fs, calls, ui>>

NextResolve ==
    \/ SetFrameTimes
    \/ SE_SetStartEndFrames

SpecResolve == InitResolve /\ [][NextResolve]_vars

\* ------------------------------------------------- the export as a whole
\* Grid inputs of Exporter.export: n frames (start 0, end n - 1, step 1),
\* every rows / columns value, both fill directions, every padding.
InitPackExporter ==
    /\ impl = "Exporter"
    /\ pc = "export"
    /\ doc = Doc(0, MaxTime, <<>>)
    /\ \E n \in 1..MaxFrames : frames = [start |-> 0, end |-> n - 1, step |-> 1]
    /\ exp \in {[AutoExp EXCEPT !.horizontal = h, !.columns = c, !.rows = r,
                       !.pad = p, !.write_texture_atlas = a] :
                    h \in BOOLEAN, c \in Sizes, r \in Sizes, p \in Pads,
                    a \in BOOLEAN}
    /\ se = AutoSe

\* Time inputs of Exporter.export: every entered start / end / step on
\* documents of at most one layer, grid left to the packer.
InitTimesExporter ==
    /\ impl = "Exporter"
    /\ pc = "export"
    /\ \E ce \in Times, ls \in LayerLists :
           Len(ls) <= 1 /\ doc = Doc(0, ce, ls)
    /\ frames \in [start : UserTimes, end : UserTimes, step : Steps]
    /\ exp = AutoExp
    /\ se = AutoSe

\* The end-to-end scenario: a clip of the 10 frames 0..9 with keyframes at both
\* ends, everything left to the defaults, the atlas written.
InitScenario ==
    /\ impl = "Exporter"
    /\ pc = "export"
    /\ doc = Doc(0, 9, <<[visible |-> TRUE, animated |-> TRUE, keys |-> {0, 9},
                         type |-> "paintlayer", parent |-> 0, pixel |-> 0]>>)
    /\ frames = AutoFrames
    /\ exp \in {[AutoExp EXCEPT !.write_texture_atlas = TRUE, !.pad = p] :
                    p \in Pads}
    /\ se = AutoSe

\* No active document.
InitNoDocument ==
    /\ impl = "Exporter"
    /\ pc = "export"
    /\ doc = [Doc(0, 0, <<>>) EXCEPT !.active = FALSE]
    /\ frames = AutoFrames
    /\ exp = AutoExp
    /\ se = AutoSe

\* Pixel contents that repeat: any of three buffers at each time up to
\* MaxTime, distinct buffers after it.
RepeatingPixels ==
    {[t \in PixelTimes |-> IF t <= MaxTime THEN f[t] ELSE t + 3] :
        f \in [0..MaxTime -> 0..2]}

\* Timeline inputs of Exporter.export for the unique-frames option: every
\* entered range on documents whose frames repeat, option on and off, grid
\* left to the packer or two columns wide.
InitUniqueExporter ==
    /\ impl = "Exporter"
    /\ pc = "export"
    /\ \E px \in RepeatingPixels :
           doc = [Doc(0, MaxTime, <<>>) EXCEPT !.pixels = px]
    /\ frames \in [start : Times, end : Times, step : Steps]
    /\ exp \in {[AutoExp EXCEPT !.unique_frames = u, !.columns = c] :
                    u \in BOOLEAN, c \in {DEFAULT_SPACE, 2}}
    /\ se = AutoSe

\* Timeline inputs of Exporter.export on a document that is not at time 0:
\* every current time, every entered or default range, frames that all
\* differ or all repeat, the unique-frames option on and off.
InitCurrentTimeExporter ==
    /\ impl = "Exporter"
    /\ pc = "export"
    /\ \E t \in Times, px \in {DistinctPixels, [u \in PixelTimes |-> 0]} :
           doc = [Doc(0, MaxTime,
                      <<[visible |-> TRUE, animated |-> TRUE,
                         keys |-> {0, MaxTime}, type |-> "paintlayer",
                         parent |-> 0, pixel |-> 0]>>)
                  EXCEPT !.currentTime = t, !.pixels = px]
    /\ frames \in [start : UserTimes, end : UserTimes, step : Steps]
    /\ exp \in {[AutoExp EXCEPT !.unique_frames = u] : u \in BOOLEAN}
    /\ se = AutoSe

\* Node trees of paint and group layers, a node below the root or below the
\* group layer before it, each with one of two pixel buffers.
LayerForests ==
    UNION {{ls \in [1..n -> [visible : BOOLEAN, animated : {FALSE},
                             keys : {{}},
                             type : {"paintlayer", "grouplayer"},
                             parent : 0..(n - 1), pixel : 0..1]] :
               \A i \in 1..n :
                   \/ ls[i].parent = 0
                   \/ /\ ls[i].parent = i - 1
                      /\ ls[i - 1].type = "grouplayer"} :
           n \in 0..(MaxLayers + 1)}

\* Layers-mode inputs of Exporter.export: every node tree, unique-frames on
\* and off, on hosts with and without Node.findChildNodes.
InitLayersExporter ==
    /\ impl = "Exporter"
    /\ pc = "export"
    /\ \E ls \in LayerForests : doc = Doc(0, MaxTime, ls)
    /\ frames = AutoFrames
    /\ exp \in {[AutoExp EXCEPT !.layers_as_animation = TRUE,
                       !.unique_frames = u, !.can_find_child_nodes = f] :
                    u \in BOOLEAN, f \in BOOLEAN}
    /\ se = AutoSe

\* The directories that may exist before an export of the Exporter.
ExporterDirs ==
    SUBSET {ExportSprites, exportCandidate(ExportSprites, 0),
            exportCandidate(ExportSprites, 1),
            exportCandidate(ExportSprites, 2), CustomDir,
            exportCandidate(CustomDir, 0)}

\* Image-sequence inputs of Exporter.export: the frames directory custom or
\* derived, force-new set or not, any of the directories existing, a range
\* of no frame, one frame or two frames, with and without an active document.
InitFramesDirExporter ==
    /\ impl = "Exporter"
    /\ pc = "export"
    /\ \/ doc = Doc(0, 1, <<>>)
       \/ doc = [Doc(0, 0, <<>>) EXCEPT !.active = FALSE]
    /\ \E e \in -1..1 : frames = [start |-> 0, end |-> e, step |-> 1]
    /\ exp \in {[AutoExp EXCEPT !.frame_export =
                       [set |-> TRUE, custom_dir |-> c, force_new |-> n]] :
                    c \in BOOLEAN, n \in BOOLEAN}
    /\ se = AutoSe
    /\ fs \in ExporterDirs

\* The object as line 255 is entered, the sprites directory added.
AtLine255 == [AutoSe EXCEPT !.spritesExportDir = SheetSprites,
                            !.addedFolder = TRUE]

\* SpritesheetExporter.export at line 255, after the frames were exported, in
\* timeline mode: framesNum = ((end + 1) - start) / step, no layer states.
InitPackSeTimeline ==
    /\ \E start \in 0..1, n \in 1..MaxFrames, step \in Steps :
           se \in {[AtLine255 EXCEPT !.start = start, !.end = start + n - 1,
                       !.step = step, !.framesNum = <<n, step>>,
                       !.exported = start..(start + n - 1),
                       !.rows = r, !.columns = c, !.isHorizontal = h,
                       !.writeTextureAtlas = a] :
                   r \in Sizes, c \in Sizes, h \in BOOLEAN, a \in BOOLEAN}

\* The same in layers mode: one state per leaf layer, start = 0,
\* end = len(layersList) - 1, framesNum = len(layersList).
InitPackSeLayers ==
    /\ \E n \in 1..MaxLayers + 1, step \in Steps :
         \E states \in [1..n -> BOOLEAN] :
           se \in {[AtLine255 EXCEPT !.layersAsAnimation = TRUE,
                       !.layersStates = states,
                       !.offLayers = Cardinality({i \in 1..n : ~states[i]}),
                       !.start = 0, !.end = n - 1, !.step = step,
                       !.framesNum = <<n, 1>>, !.exported = 0..(n - 1),
                       !.rows = r, !.columns = c, !.isHorizontal = h,
                       !.writeTextureAtlas = a] :
                   r \in Sizes, c \in Sizes, h \in BOOLEAN, a \in BOOLEAN}

InitPackSe ==
    /\ impl = "SpritesheetExporter"
    /\ pc = "se_pack"
    /\ doc = Doc(0, MaxTime, <<>>)
    /\ frames = AutoFrames
    /\ exp = AutoExp
    /\ InitPackSeTimeline \/ InitPackSeLayers
    /\ fs = {SheetSprites}

\* Node trees of at most one layer.
SmallTrees == {ls \in LayerTrees : Len(ls) <= 1}

\* SpritesheetExporter.export from its start: every entered start / end /
\* step, both modes, sprites kept or removed, on documents of at most one
\* layer and without an active document; no directory exists yet.
InitSeExport ==
    /\ impl = "SpritesheetExporter"
    /\ pc = "se_export"
    /\ \/ \E ce \in Times, ls \in SmallTrees : doc = Doc(0, ce, ls)
       \/ doc = [Doc(0, 0, <<>>) EXCEPT !.active = FALSE]
    /\ frames = AutoFrames
    /\ exp = AutoExp
    /\ \E ft \in [start : UserTimes, end : UserTimes, step : Steps],
          las \in BOOLEAN, rm \in BOOLEAN :
           se = [AutoSe EXCEPT !.start = ft.start, !.end = ft.end,
                               !.step = ft.step, !.layersAsAnimation = las,
                               !.removeTmp = rm]
    /\ fs = {}

\* The directories that may exist before an export.
SomeDirs ==
    SUBSET {SheetSprites, exportCandidate(SheetSprites, 0),
            exportCandidate(SheetSprites, 1),
            exportCandidate(SheetSprites, 2), CustomDir,
            exportCandidate(CustomDir, 0)}

\* SpritesheetExporter.export from its start, for the sprites directory: the
\* class default, a directory the user set or one an earlier export left in
\* spritesExportDir, force-new set or not, any of the directories existing.
InitSeDirs ==
    /\ impl = "SpritesheetExporter"
    /\ pc = "se_export"
    /\ \/ doc = Doc(0, 1, <<>>)
       \/ doc = [Doc(0, 0, <<>>) EXCEPT !.active = FALSE]
    /\ frames = AutoFrames
    /\ exp = AutoExp
    /\ \E dir \in {DefaultPath, CustomDir, exportCandidate(SheetSprites, 0)},
          new \in BOOLEAN, rm \in BOOLEAN, e \in {DEFAULT_TIME, 1} :
           se = [AutoSe EXCEPT !.spritesExportDir = dir, !.forceNew = new,
                               !.removeTmp = rm, !.end = e]
    /\ fs \in SomeDirs

Init ==
    /\ \/ /\ \/ InitPackExporter
             \/ InitTimesExporter
             \/ InitScenario
             \/ InitNoDocument
             \/ InitUniqueExporter
             \/ InitLayersExporter
             \/ InitCurrentTimeExporter
          /\ fs = {}
       \/ InitFramesDirExporter
       \/ InitPackSe
       \/ InitSeExport
       \/ InitSeDirs
    /\ sheet = NoSheet
    /\ atlas = NoAtlas
    /\ calls = <<>>
    /\ ui = NoDialog
    /\ in0 = IF impl = "Exporter"
             THEN Entered(frames, exp.rows, exp.columns)
             ELSE Entered(se, se.rows, se.columns)

Next ==
    \/ ExportStart
    \/ CopyFrames
    \/ Pack
    \/ ProcessFrames
    \/ SE_Export
    \/ SE_Pack
    \/ SE_Place

Spec == Init /\ [][Next]_vars

\* ------------------------------------- a session of the dialog and exporter
\* The runs of one session.
MaxRuns == 2

\* The values a run of Exporter.export uses on the object e with the frame
\* times ft: the range of _copy_frames, the grid of export (as entered when
\* the division fails), the frames directory.
exporter_run(e, ft, d, dirs) ==
    LET r == IF ft.end = DEFAULT_TIME \/ ft.start = DEFAULT_TIME
             THEN set_frame_times(ft, d)
             ELSE ft
        n == Len(PyRange(r.start, r.end + 1, r.step))
        grid == IF pack_divides_by_zero(e.columns, e.rows, n)
                THEN <<e.columns, e.rows>>
                ELSE pack(e.columns, e.rows, n)
    IN  [start |-> r.start, end |-> r.end, step |-> r.step,
         rows |-> grid[2], columns |-> grid[1],
         dir |-> IF e.frame_export.set
                 THEN make_frames_dir(e.frame_export, dirs).dir
                 ELSE DefaultPath]

\* The values a run of SpritesheetExporter.export uses on the object s, up to
\* the frame loop: the range of setStartEndFrames, the rows and columns set,
\* the sprites directory.
se_run(s, d, dirs) ==
    LET r == IF s.end = DEFAULT_TIME \/ s.start = DEFAULT_TIME
             THEN setStartEndFrames(s, d)
             ELSE s
    IN  [start |-> r.start, end |-> r.end, step |-> r.step,
         rows |-> s.rows, columns |-> s.columns,
         dir |-> se_sprites_dir(s, dirs).dir]

\* The apply_settings calls of Controller.confirm_button (lines 86-91).
\* SpritePlacement sets columns and rows. SpinBoxes writes exporter.start, end
\* and step, which export does not read (it reads exporter.frames);
\* EdgePadding writes pad_left, pad_top, pad_right, pad_bottom, not pad;
\* FramesExport writes export_frame_sequence and, when checked, base_name,
\* custom_frames_dir and force_new, not frame_export.
apply_settings(e, w) ==
    [e EXCEPT !.columns = w.columns, !.rows = w.rows,
              !.extra = [applied |-> TRUE,
                         start |-> w.start, end |-> w.end, step |-> w.step,
                         pad_left |-> w.pad.left, pad_top |-> w.pad.top,
                         pad_right |-> w.pad.right,
                         pad_bottom |-> w.pad.bottom,
                         export_frame_sequence |-> w.frames_checked,
                         base_name |-> IF w.frames_checked THEN w.base_name
                                       ELSE e.extra.base_name,
                         custom_frames_dir |->
                             IF w.frames_checked THEN w.custom_dir
                             ELSE e.extra.custom_frames_dir,
                         force_new |-> IF w.frames_checked THEN w.force_new
                                       ELSE e.extra.force_new]]

\* The assignments of UISpritesheetExporter.confirmButton (lines 428-439) to
\* attributes export reads: rows, columns, start, end, step.
se_apply(s, w) ==
    [s EXCEPT !.rows = w.rows, !.columns = w.columns, !.start = w.start,
              !.end = w.end, !.step = w.step]

\* Documents of one visible animated layer with a single keyframe.
SessionDocs == {Doc(0, MaxTime, <<k>>) : k \in KeyLayers}

\* What the user may enter: a default or entered start and end; a grid left
\* to the packer or two columns wide; no padding or some; no image sequence,
\* or one named "frame" into a new custom directory.
SessionWidgets ==
    {[DefaultWidgets EXCEPT !.start = a, !.end = b, !.columns = c, !.pad = p,
                            !.frames_checked = f, !.custom_dir = f,
                            !.force_new = f,
                            !.base_name = IF f THEN "frame" ELSE "sprite"] :
        a \in {DEFAULT_TIME, 1}, b \in {DEFAULT_TIME, 2},
        c \in {DEFAULT_SPACE, 2},
        p \in {NoPad, [left |-> 1, top |-> 0, right |-> 2, bottom |-> 1]},
        f \in BOOLEAN}

\* The session starts with the dialog built and hidden and the exporter
\* object as constructed, its frame times on Auto.
InitSession ==
    /\ impl \in {"Exporter", "SpritesheetExporter"}
    /\ pc = "idle"
    /\ doc \in SessionDocs
    /\ frames = AutoFrames
    /\ exp = AutoExp
    /\ se = AutoSe
    /\ sheet = NoSheet
    /\ atlas = NoAtlas
    /\ in0 = Entered(AutoFrames, DEFAULT_SPACE, DEFAULT_SPACE)
    /\ fs = {}
    /\ calls = <<>>
    /\ \E h \in BOOLEAN : ui = [NoDialog EXCEPT !.events_in_export = h]

\* The host dispatches an event to the plugin: always between handlers, and
\* while an export runs on a host that dispatches events then.
Dispatches == ui.exporting = 0 \/ ui.events_in_export

\* Controller.show_dialog (lines 34-42), UISpritesheetExporter.showExportDialog
\* (lines 397-405): show, activateWindow, setDisabled(False).
ShowDialog ==
    /\ Dispatches
    /\ ui' = [ui EXCEPT !.visible = TRUE, !.enabled = TRUE]
    /\ UNCHANGED <<impl, pc, doc, frames, exp, se, sheet, atlas, in0, fs,
                   calls>>

\* The user changes the values of the widgets of the shown, enabled dialog.
EditWidgets ==
    /\ Dispatches
    /\ ui.visible /\ ui.enabled
    /\ \E w \in SessionWidgets : ui' = [ui EXCEPT !.widgets = w]
    /\ UNCHANGED <<impl, pc, doc, frames, exp, se, sheet, atlas, in0, fs,
                   calls>>

\* The user edits the document between two exports.
EditDocument ==
    /\ ui.exporting = 0
    /\ doc' \in SessionDocs
    /\ UNCHANGED <<impl, pc, frames, exp, se, sheet, atlas, in0, fs, calls,
                   ui>>

\* Controller.confirm_button (lines 82-94), UISpritesheetExporter.confirmButton
\* (lines 423-441), from the click the host delivers to the shown, enabled
\* dialog up to the host calls of export(): setDisabled(True), the settings
\* are applied, export() resolves the range into the long-lived object and
\* computes grid and directory. used records the values of this run, fresh
\* those of an object as constructed with the same settings applied.
Confirm ==
    /\ Dispatches
    /\ ui.visible /\ ui.enabled
    /\ ui.runs < MaxRuns
    /\ pc' = "exporting"
    /\ IF impl = "Exporter"
       THEN LET e == apply_settings(exp, ui.widgets)
                run == exporter_run(e, frames, doc, fs)
            IN  /\ frames' = [start |-> run.start, end |-> run.end,
                              step |-> run.step]
                /\ exp' = [e EXCEPT !.columns = run.columns,
                                    !.rows = run.rows]
                /\ ui' = [ui EXCEPT !.enabled = FALSE,
                             !.exporting = @ + 1, !.runs = @ + 1,
                             !.used = run,
                             !.fresh = exporter_run(
                                 apply_settings(AutoExp, ui.widgets),
                                 AutoFrames, doc, fs)]
                /\ UNCHANGED <<se, fs>>
       ELSE LET s == se_apply(se, ui.widgets)
                run == se_run(s, doc, fs)
            IN  /\ se' = [s EXCEPT !.start = run.start, !.end = run.end,
                                   !.spritesExportDir = run.dir]
                /\ fs' = se_sprites_dir(s, fs).dirs
                /\ ui' = [ui EXCEPT !.enabled = FALSE,
                             !.exporting = @ + 1, !.runs = @ + 1,
                             !.used = run,
                             !.fresh = se_run(se_apply(AutoSe, ui.widgets),
                                              doc, fs)]
                /\ UNCHANGED <<frames, exp>>
    /\ UNCHANGED <<impl, doc, sheet, atlas, in0, calls>>

\* export() returns, or raises, to the confirm handler; when it returns the
\* handler hides the dialog (controller.py line 94, se_ui.py line 441).
ExportReturns ==
    /\ ui.exporting > 0
    /\ \E raised \in BOOLEAN :
           ui' = [ui EXCEPT !.exporting = @ - 1,
                            !.visible = IF raised THEN @ ELSE FALSE]
    /\ pc' = IF ui.exporting = 1 THEN "idle" ELSE pc
    /\ UNCHANGED <<impl, doc, frames, exp, se, sheet, atlas, in0, fs, calls>>

NextSession ==
    \/ ShowDialog
    \/ EditWidgets
    \/ EditDocument
    \/ Confirm
    \/ ExportReturns

SpecSession == InitSession /\ [][NextSession]_vars

\* ------------------------------------------------------------ the claims
\* The grid of Exporter.export is final once the frames are to be processed.
ExporterPacked == impl = "Exporter" /\ pc \in {"process_frames", "done"}
\* The grid of SpritesheetExporter.export is final once the frames are placed.
SePacked == impl = "SpritesheetExporter" /\ pc \in {"se_place", "se_done"}
\* The frames Exporter.export sizes its grid for: the nodes of the sheet.
ExporterFrameCount == Len(sheet.nodes)
\* The frames SpritesheetExporter.export sizes its grid for: the frame times
\* of the range in timeline mode, the visible layers in layers mode.
SeFrameCount ==
    IF se.layersAsAnimation
    THEN Cardinality({i \in 1..Len(se.layersStates) : se.layersStates[i]})
    ELSE Len(PyRange(se.start, se.end + 1, se.step))
\* ceil(n / d) by its definition: the least k with k * d >= n.
IsCeilDiv(k, n, d) == k * d >= n /\ (k - 1) * d < n
\* ceil(sqrt(n)) by its definition: the least k with k * k >= n.
IsCeilSqrt(k, n) == k >= 0 /\ k * k >= n /\ (k = 0 \/ (k - 1) * (k - 1) < n)

C2_Original ==
    (/\ impl = "Exporter"
     /\ pc = "done"
     /\ in0.rows = DEFAULT_SPACE
     /\ in0.columns = DEFAULT_SPACE
     /\ exp.horizontal
     /\ exp.write_texture_atlas
     /\ Len(sheet.nodes) = 10)
    => LET w == padded_width(doc, exp.pad)
           h == padded_height(doc, exp.pad)
       IN  /\ sheet.width = 4 * w
           /\ sheet.height = 3 * h
           /\ Len(atlas.frames) = 10
           /\ \A i \in 0..9 :
                  /\ atlas.frames[i + 1].x = (i % 4) * w
                  /\ atlas.frames[i + 1].y = (i \div 4) * h

\* C2, amended: with rows = columns = 0 and horizontal placement, Exporter.export
\* of 10 frames gives a sheet of 4 columns by 4 rows of cells (the grid block of
\* SpritesheetExporter.export gives 4 columns by 3 rows); the atlas holds 10
\* entries, entry i at x = (i % 4) * w, y = (i // 4) * h, w and h the padded
\* sprite size.
C2_TenFrameSheet ==
    /\ (/\ impl = "Exporter"
        /\ pc = "done"
        /\ in0.rows = DEFAULT_SPACE
        /\ in0.columns = DEFAULT_SPACE
        /\ exp.horizontal
        /\ exp.write_texture_atlas
        /\ Len(sheet.nodes) = 10)
       => LET w == padded_width(doc, exp.pad)
              h == padded_height(doc, exp.pad)
          IN  /\ sheet.width = 4 * w
              /\ sheet.height = 4 * h
              /\ Len(atlas.frames) = 10
              /\ \A i \in 0..9 :
                     /\ atlas.frames[i + 1].x = (i % 4) * w
                     /\ atlas.frames[i + 1].y = (i \div 4) * h
    /\ (/\ impl = "SpritesheetExporter"
        /\ pc = "se_done"
        /\ in0.rows = DEFAULT_SPACE
        /\ in0.columns = DEFAULT_SPACE
        /\ se.isHorizontal
        /\ se.writeTextureAtlas
        /\ Len(sheet.nodes) = 10)
       => /\ sheet.width = 4 * doc.width
          /\ sheet.height = 3 * doc.height
          /\ Len(atlas.frames) = 10
          /\ \A i \in 0..9 :
                 /\ atlas.frames[i + 1].x = (i % 4) * doc.width
                 /\ atlas.frames[i + 1].y = (i \div 4) * doc.height

\* C2, the scenario reached: the document with the clip 0..9 was exported by
\* Exporter.export with everything left to the defaults, 10 frames are in the
\* sheet and 10 records in the atlas.
C2_ScenarioDone ==
    /\ impl = "Exporter"
    /\ pc = "done"
    /\ doc.clipStart = 0
    /\ doc.clipEnd = 9
    /\ in0 = Entered(AutoFrames, DEFAULT_SPACE, DEFAULT_SPACE)
    /\ Len(sheet.nodes) = 10
    /\ Len(atlas.frames) = 10
    /\ exp.pad.left = 1

C4_ColumnsFixed ==
    /\ (/\ ExporterPacked
        /\ in0.rows = DEFAULT_SPACE /\ in0.columns >= 1
        /\ ExporterFrameCount >= 1)
       => /\ IsCeilDiv(exp.rows, ExporterFrameCount, in0.columns)
          /\ exp.columns = Min2(in0.columns, ExporterFrameCount)
    /\ (/\ SePacked
        /\ in0.rows = DEFAULT_SPACE /\ in0.columns >= 1
        /\ SeFrameCount >= 1)
       => IsCeilDiv(se.rows, SeFrameCount, in0.columns)

\* C4, the case reached: Exporter.export clamped 4 entered columns to the 3
\* frames it collected, in one row.
C4_ClampedColumns ==
    /\ ExporterPacked
    /\ in0.rows = DEFAULT_SPACE /\ in0.columns = 4
    /\ ExporterFrameCount = 3
    /\ exp.columns = 3
    /\ exp.rows = 1

\* C5: with only rows fixed to r >= 1 (columns = 0), for every frame count
\* n >= 1 the packer returns columns = ceil(n / r) and the resulting rows never
\* exceeds r.
C5_RowsFixed ==
    /\ (/\ ExporterPacked
        /\ in0.columns = DEFAULT_SPACE /\ in0.rows >= 1
        /\ ExporterFrameCount >= 1)
       => /\ IsCeilDiv(exp.columns, ExporterFrameCount, in0.rows)
          /\ exp.rows <= in0.rows
    /\ (/\ SePacked
        /\ in0.columns = DEFAULT_SPACE /\ in0.rows >= 1
        /\ SeFrameCount >= 1)
       => /\ IsCeilDiv(se.columns, SeFrameCount, in0.rows)
          /\ se.rows <= in0.rows

\* C5, the case reached: SpritesheetExporter.export sized the grid for 5 frames
\* with 4 rows entered: 2 columns, and 3 rows instead of 4.
C5_RowsLowered ==
    /\ SePacked
    /\ in0.columns = DEFAULT_SPACE /\ in0.rows = 4
    /\ SeFrameCount = 5
    /\ se.columns = 2
    /\ se.rows = 3

\* C6: the frame at ordinal i (0-based, over the frames placed) is put in cell
\* (i % columns, i // columns) when horizontal is set and in cell
\* (i // rows, i % rows) when it is not, by Exporter._process_frames and by
\* SpritesheetExporter.positionLayer.
C6_CellOfOrdinal ==
    /\ (impl = "Exporter" /\ pc = "done")
       => \A k \in 1..Len(sheet.nodes) :
              LET i == k - 1
                  w == padded_width(doc, exp.pad)
                  h == padded_height(doc, exp.pad)
              IN  IF exp.horizontal
                  THEN /\ sheet.nodes[k].x = (i % exp.columns) * w
                       /\ sheet.nodes[k].y = (i \div exp.columns) * h
                  ELSE /\ sheet.nodes[k].x = (i \div exp.rows) * w
                       /\ sheet.nodes[k].y = (i % exp.rows) * h
    /\ (impl = "SpritesheetExporter" /\ pc = "se_done")
       => \A k \in 1..Len(sheet.nodes) :
              LET i == k - 1
              IN  IF se.isHorizontal
                  THEN /\ sheet.nodes[k].x = (i % se.columns) * doc.width
                       /\ sheet.nodes[k].y = (i \div se.columns) * doc.height
                  ELSE /\ sheet.nodes[k].x = (i \div se.rows) * doc.width
                       /\ sheet.nodes[k].y = (i % se.rows) * doc.height

\* C6, the case that fails: SpritesheetExporter placed frames top to bottom
\* (horizontal unset) in timeline mode, and the second frame is not in the
\* second row of the first column.
C6_SeVerticalMisplaced ==
    /\ impl = "SpritesheetExporter"
    /\ pc = "se_done"
    /\ ~se.isHorizontal
    /\ ~se.layersAsAnimation
    /\ se.rows >= 2
    /\ Len(sheet.nodes) >= 2
    /\ sheet.nodes[2].x # 0

\* C7: when the texture atlas is enabled it holds exactly one record per frame
\* placed in the sheet, in placement order; each record's x, y are the position
\* the frame was moved to, and its w, h are the source width plus left + right
\* padding and the source height plus top + bottom padding (the
\* SpritesheetExporter revision has no padding). When it is not enabled no
\* atlas is written.
C7_AtlasMatchesPlacement ==
    /\ (impl = "Exporter" /\ pc = "done")
       => /\ atlas.written = exp.write_texture_atlas
          /\ atlas.written =>
               /\ Len(atlas.frames) = Len(sheet.nodes)
               /\ \A k \in 1..Len(sheet.nodes) :
                      /\ atlas.frames[k].filename = k - 1
                      /\ atlas.frames[k].x = sheet.nodes[k].x
                      /\ atlas.frames[k].y = sheet.nodes[k].y
                      /\ atlas.frames[k].w =
                             doc.width + exp.pad.left + exp.pad.right
                      /\ atlas.frames[k].h =
                             doc.height + exp.pad.top + exp.pad.bottom
    /\ (impl = "SpritesheetExporter" /\ pc = "se_done")
       => /\ atlas.written = se.writeTextureAtlas
          /\ atlas.written =>
               /\ Len(atlas.frames) = Len(sheet.nodes)
               /\ \A k \in 1..Len(sheet.nodes) :
                      /\ atlas.frames[k].filename = sheet.nodes[k].name
                      /\ atlas.frames[k].x = sheet.nodes[k].x
                      /\ atlas.frames[k].y = sheet.nodes[k].y
                      /\ atlas.frames[k].w = doc.width
                      /\ atlas.frames[k].h = doc.height

\* C7, the case reached: Exporter.export wrote an atlas of at least 4 padded
\* frames, and the last one lies right of the first column and below the first
\* row.
C7_PaddedAtlasWritten ==
    /\ impl = "Exporter"
    /\ pc = "done"
    /\ atlas.written
    /\ exp.pad.right = 2
    /\ Len(atlas.frames) >= 4
    /\ atlas.frames[Len(atlas.frames)].x > 0
    /\ atlas.frames[Len(atlas.frames)].y > 0

\* The bounds set_frame_times starts from: the entered bound, or the bound of
\* the document's full clip range where the entered bound is default.
NominalStart == IF in0.start = DEFAULT_TIME THEN doc.clipStart ELSE in0.start
NominalEnd == IF in0.end = DEFAULT_TIME THEN doc.clipEnd ELSE in0.end
BothEntered == in0.start # DEFAULT_TIME /\ in0.end # DEFAULT_TIME
HasVisibleAnimatedLayer ==
    \E i \in 1..Len(doc.layers) :
        doc.layers[i].visible /\ doc.layers[i].animated

C10_ExplicitUnchanged ==
    (pc = "resolved" /\ BothEntered) =>
        frames = [start |-> in0.start, end |-> in0.end, step |-> in0.step]

\* C10, the case reached: start = 5, end = 5, step = 1 went through the
\* resolver.
C10_FiveFiveOne ==
    /\ pc = "resolved"
    /\ in0.start = 5 /\ in0.end = 5 /\ in0.step = 1
    /\ frames = [start |-> 5, end |-> 5, step |-> 1]

\* The bounds after resolution, of whichever backend resolved them.
Resolved ==
    IF impl = "Exporter" THEN frames
    ELSE [start |-> se.start, end |-> se.end, step |-> se.step]
\* The keyframe times within lo..hi of the layers that are visible and animated.
KeyframesIn(lo, hi) ==
    UNION {doc.layers[i].keys \cap lo..hi :
               i \in {j \in 1..Len(doc.layers) :
                          doc.layers[j].visible /\ doc.layers[j].animated}}

\* C11 as stated: when the end bound is default, the resolved end equals the
\* maximum, over all visible animated layers, of each layer's latest keyframe
\* time within the nominal [start, end] range; if no such layer has a keyframe
\* in the range, the resolved end equals the nominal start.
C11_ResolvedEnd ==
    (pc \in {"resolved", "se_resolved"} /\ in0.end = DEFAULT_TIME) =>
        LET hits == KeyframesIn(NominalStart, NominalEnd)
        IN  Resolved.end = IF hits = {} THEN NominalStart ELSE SetMax(hits)

\* C11 for FrameTimes.set_frame_times where its scan is reached: the nominal
\* bounds differ and a layer is visible and animated; the range scanned is the
\* nominal one with its bounds in order.
C11_ExporterEnd ==
    (pc = "resolved" /\ impl = "Exporter" /\ in0.end = DEFAULT_TIME
        /\ HasVisibleAnimatedLayer) =>
        LET lo == Min2(NominalStart, NominalEnd)
            hi == Max2(NominalStart, NominalEnd)
            hits == KeyframesIn(lo, hi)
        IN  Resolved.end = IF hits = {} THEN lo ELSE SetMax(hits)

\* C11, the case reached: SpritesheetExporter.setStartEndFrames with the start
\* entered as 2, the end default and the only keyframe at time 1 resolves the
\* end to 1, below the start; the range 2..3 holds no keyframe.
C11_SeEndBelowStart ==
    /\ pc = "se_resolved"
    /\ impl = "SpritesheetExporter"
    /\ in0.start = 2
    /\ in0.end = DEFAULT_TIME
    /\ doc.clipEnd = 3
    /\ KeyframesIn(0, doc.clipEnd) = {1}
    /\ se.start = 2
    /\ se.end = 1

\* C12 as stated: when the start bound is default, the resolved start equals
\* the minimum, over all visible animated layers, of each layer's earliest
\* keyframe time between the nominal start and the resolved end; if no such
\* layer has a keyframe there, the resolved start equals the resolved end.
C12_ResolvedStart ==
    (pc \in {"resolved", "se_resolved"} /\ in0.start = DEFAULT_TIME) =>
        LET hits == KeyframesIn(NominalStart, Resolved.end)
        IN  Resolved.start = IF hits = {} THEN Resolved.end ELSE SetMin(hits)

\* C12, the case reached: SpritesheetExporter.setStartEndFrames with the start
\* default, the end entered as 2, the clip ending at 0 and the only keyframe at
\* time 2 resolves the start to 1, the time after the clip end, where no layer
\* has a keyframe.
C12_SeStartPastClipEnd ==
    /\ pc = "se_resolved"
    /\ impl = "SpritesheetExporter"
    /\ in0.start = DEFAULT_TIME
    /\ in0.end = 2
    /\ doc.clipEnd = 0
    /\ KeyframesIn(0, 2) = {2}
    /\ se.start = 1
    /\ se.end = 2

\* The positions an export ends in with an exception raised.
Failed ==
    pc \in {"ValueError", "ZeroDivisionError", "TypeError", "AttributeError",
            "FileNotFoundError"}
\* The frames are read from the timeline, not from the layers.
TimelineMode ==
    IF impl = "Exporter" THEN ~exp.layers_as_animation
    ELSE ~se.layersAsAnimation
\* The frame range has been resolved.
RangeResolved ==
    pc \in {"pack", "process_frames", "done", "se_pack", "se_place", "se_done"}

\* C13 as stated: when at least one bound is default and no layer of the
\* document is both visible and animated, the export does not fail: the range
\* resolves to a single frame at time 0 (start = end = 0) and exactly one
\* frame is collected and placed.
C13_SingleFrameFallback ==
    (doc.active /\ TimelineMode /\ ~HasVisibleAnimatedLayer
        /\ (in0.start = DEFAULT_TIME \/ in0.end = DEFAULT_TIME)) =>
        /\ ~Failed
        /\ RangeResolved => Resolved.start = 0 /\ Resolved.end = 0
        /\ pc \in {"done", "se_done"} => Len(sheet.nodes) = 1

\* C13, the case reached: SpritesheetExporter.export with both bounds default
\* on a document without a visible animated layer leaves start = end = -1 and
\* ends in an exception.
C13_SeUnresolved ==
    /\ impl = "SpritesheetExporter"
    /\ doc.active
    /\ ~se.layersAsAnimation
    /\ ~HasVisibleAnimatedLayer
    /\ in0.start = DEFAULT_TIME
    /\ in0.end = DEFAULT_TIME
    /\ se.start = -1
    /\ se.end = -1
    /\ Failed

\* The frames offered to the sheet, in order, as the pixel buffer of each:
\* the resolved times of the timeline, or the visible layers the collector
\* enumerates.
OfferedPixels ==
    IF exp.layers_as_animation
    THEN LET shown == SelectSeq(
                 recurse_children(doc.layers, exp.can_find_child_nodes,
                                  "paintlayer"),
                 LAMBDA i : doc.layers[i].visible)
         IN  [k \in 1..Len(shown) |-> doc.layers[shown[k]].pixel]
    ELSE LET times == PyRange(frames.start, frames.end + 1, frames.step)
         IN  [k \in 1..Len(times) |-> doc.pixels[times[k]]]

\* The positions of the offered frames that are kept: every one without the
\* unique-frames option, the first of each distinct buffer with it.
KeptPositions ==
    SelectSeq([k \in 1..Len(OfferedPixels) |-> k],
              LAMBDA k : exp.unique_frames =>
                  \A j \in 1..(k - 1) : OfferedPixels[j] # OfferedPixels[k])

C14_LayerRepeatDropped ==
    /\ impl = "Exporter" /\ pc = "done" /\ exp.layers_as_animation
    /\ exp.unique_frames
    /\ Len(OfferedPixels) = 2
    /\ OfferedPixels[1] = OfferedPixels[2]
    /\ Len(sheet.nodes) = 1

\* C15: without an active document a step of the export raises no error,
\* creates no document, no directory and no atlas file, and leaves the
\* configuration of the exporter (Exporter, its FrameTimes, and the
\* SpritesheetExporter object) as it was.
C15_NoDocumentNoOp ==
    [][(~doc.active) =>
          /\ pc' \notin {"AttributeError", "TypeError", "ValueError",
                         "ZeroDivisionError", "FileNotFoundError"}
          /\ sheet' = NoSheet
          /\ atlas' = NoAtlas
          /\ fs' = fs
          /\ exp' = exp /\ frames' = frames /\ se' = se]_vars

\* SpritesheetExporter.export without an active document: the sprites
\* directory was resolved into spritesExportDir and created, then
\* doc.setBatchmode on None raised AttributeError.
C15_SeDirectoryThenError ==
    /\ impl = "SpritesheetExporter"
    /\ ~doc.active
    /\ pc = "AttributeError"
    /\ in0.start = DEFAULT_TIME
    /\ se.spritesExportDir = SheetSprites
    /\ se.addedFolder
    /\ fs = {SheetSprites}

\* Exporter.export without an active document has returned with everything
\* as it was, the frames directory not made.
C15_ExporterReturned ==
    /\ impl = "Exporter"
    /\ ~doc.active
    /\ pc = "returned"
    /\ exp.frame_export.set
    /\ ExportSprites \notin fs
    /\ sheet = NoSheet

\* The positions in the log of host calls of the pixel reads of the source
\* document (pixelData, exportImage).
PixelReads ==
    SelectSeq([k \in 1..Len(calls) |-> k],
              LAMBDA k : calls[k][1] \in {"pixelData", "exportImage"})

\* C16: in timeline mode the log of host calls has one pixel read per
\* exported time t, in order, each directly preceded by waitForDone and that
\* by setCurrentTime(t); no pixel read follows a time change without a
\* waitForDone between the two.
C16_WaitBeforeRead ==
    /\ \A j \in 1..Len(calls), k \in 1..Len(calls) :
           (j < k /\ calls[j][1] = "setCurrentTime"
                  /\ calls[k][1] \in {"pixelData", "exportImage"}) =>
               \E m \in (j + 1)..(k - 1) : calls[m][1] = "waitForDone"
    /\ (impl = "Exporter" /\ ~exp.layers_as_animation
           /\ pc \in {"pack", "process_frames", "done", "AttributeError"}) =>
          LET times == PyRange(frames.start, frames.end + 1, frames.step)
          IN  /\ Len(PixelReads) = Len(times)
              /\ \A n \in 1..Len(times) :
                     /\ PixelReads[n] > 2
                     /\ calls[PixelReads[n] - 1] = <<"waitForDone">>
                     /\ calls[PixelReads[n] - 2] = <<"setCurrentTime", times[n]>>

\* The Exporter has read the pixels of three times of the timeline, the
\* last of them time 2.
C16_ThreeReads ==
    /\ impl = "Exporter" /\ pc = "done" /\ ~exp.layers_as_animation
    /\ Len(PixelReads) = 3
    /\ calls[PixelReads[3] - 2] = <<"setCurrentTime", 2>>
    /\ calls[PixelReads[3] - 1] = <<"waitForDone">>

C17_DisabledFirst ==
    [][/\ (ui'.exporting > ui.exporting) => (ui.enabled /\ ~ui'.enabled)
       /\ (~ui.enabled /\ ui'.enabled) =>
              (ui'.visible /\ ui'.exporting = ui.exporting)]_vars

C18_NoStatePersists == (ui.runs > 0) => ui.used = ui.fresh

\* The second run of the Exporter, the dialog on Auto, on a document whose
\* only keyframe is at time 3: it used the range 0..0 that the first run
\* had resolved on the document as it was then; a new object uses 3..3.
C18_StaleRange ==
    /\ impl = "Exporter"
    /\ ui.runs = 2
    /\ ui.widgets.start = DEFAULT_TIME /\ ui.widgets.end = DEFAULT_TIME
    /\ doc.layers[1].keys = {3}
    /\ ui.used.start = 0 /\ ui.used.end = 0
    /\ ui.fresh.start = 3 /\ ui.fresh.end = 3

\* The visible paint layers of the source document, depth first in stacking
\* order (a node list is in that order: a node lies below the root or below
\* the node before it).
VisiblePaintLayers ==
    SelectSeq([i \in 1..Len(doc.layers) |-> i],
              LAMBDA i : doc.layers[i].type = "paintlayer"
                             /\ doc.layers[i].visible)

\* C19: in layers mode, without unique-frames, the frames the Exporter has
\* collected are exactly the visible paint layers of the document, depth
\* first in stacking order, one frame per layer, on hosts with and without
\* can_find_child_nodes.
C19_VisiblePaintLayers ==
    (impl = "Exporter" /\ exp.layers_as_animation /\ ~exp.unique_frames
        /\ pc \in {"pack", "process_frames", "done"}) =>
        /\ Len(sheet.nodes) = Len(VisiblePaintLayers)
        /\ \A k \in 1..Len(sheet.nodes) :
               /\ sheet.nodes[k].name = k - 1
               /\ sheet.nodes[k].pixel = doc.layers[VisiblePaintLayers[k]].pixel

\* On a host with can_find_child_nodes a visible group layer with one visible
\* paint layer below it has given two frames.
C19_GroupLayerCollected ==
    /\ impl = "Exporter" /\ exp.layers_as_animation /\ ~exp.unique_frames
    /\ exp.can_find_child_nodes
    /\ pc = "done"
    /\ Len(doc.layers) = 2
    /\ doc.layers[1].type = "grouplayer" /\ doc.layers[1].visible
    /\ doc.layers[2].type = "paintlayer" /\ doc.layers[2].parent = 1
    /\ Len(VisiblePaintLayers) = 1
    /\ Len(sheet.nodes) = 2

\* C20: with force-new unset the step that makes the frames directory
\* (Exporter._process_frames, SpritesheetExporter.export) returns the
\* configured directory and leaves the directories as they were when it
\* exists, creates it and nothing else when it does not; with force-new set
\* or not, the directory returned exists afterwards; the later steps of
\* SpritesheetExporter.export remove no directory they did not create.
C20_ReuseOrCreate ==
    [][/\ (impl = "Exporter" /\ pc = "process_frames"
              /\ exp.frame_export.set) =>
              LET dir == IF exp.frame_export.custom_dir THEN CustomDir
                         ELSE ExportSprites
                  returned == calls'[Len(calls')][2]
              IN  /\ returned \in fs'
                  /\ (~exp.frame_export.force_new) =>
                         /\ returned = dir
                         /\ fs' = fs \cup {dir}
       /\ (impl = "SpritesheetExporter" /\ pc = "se_export") =>
              LET dir == IF se.spritesExportDir = DefaultPath
                         THEN SheetSprites ELSE se.spritesExportDir
              IN  /\ se'.spritesExportDir \in fs'
                  /\ (~se.forceNew) =>
                         /\ se'.spritesExportDir = dir
                         /\ fs' = fs \cup {dir}
                         /\ se'.addedFolder = (dir \notin fs)
       /\ (impl = "SpritesheetExporter" /\ pc \in {"se_pack", "se_place"}
              /\ ~se.addedFolder) => fs' = fs]_vars

\* The Exporter found its frames directory existing among others, force-new
\* unset, and returned it.
C20_ExistingReused ==
    /\ impl = "Exporter"
    /\ exp.frame_export.set /\ ~exp.frame_export.force_new
    /\ ~exp.frame_export.custom_dir
    /\ Len(calls) >= 2
    /\ calls[Len(calls) - 1] = <<"exists", ExportSprites, TRUE>>
    /\ calls[Len(calls)] = <<"_make_frames_dir", ExportSprites>>
    /\ fs = {ExportSprites, CustomDir}

\* The Exporter found no frames directory and created it.
C20_MissingCreated ==
    /\ impl = "Exporter"
    /\ exp.frame_export.set /\ ~exp.frame_export.force_new
    /\ exp.frame_export.custom_dir
    /\ Len(calls) >= 2
    /\ calls[Len(calls) - 1] = <<"exists", CustomDir, FALSE>>
    /\ calls[Len(calls)] = <<"_make_frames_dir", CustomDir>>
    /\ CustomDir \in fs

\* C21: with force-new set and the frames directory existing, the step that
\* makes the directory (Exporter._process_frames, SpritesheetExporter.export)
\* creates and returns the candidate with the least number k >= 0 that did
\* not exist, every candidate below k existing, and changes no other
\* directory; the later steps of SpritesheetExporter.export remove at most
\* the directory this export created.
C21_FirstFreeCandidate ==
    [][/\ (impl = "Exporter" /\ pc = "process_frames"
              /\ exp.frame_export.set /\ exp.frame_export.force_new
              /\ (IF exp.frame_export.custom_dir THEN CustomDir
                  ELSE ExportSprites) \in fs) =>
              LET dir == IF exp.frame_export.custom_dir THEN CustomDir
                         ELSE ExportSprites
                  returned == calls'[Len(calls')][2]
              IN  /\ \E k \in 0..Cardinality(fs) :
                         /\ returned = exportCandidate(dir, k)
                         /\ \A j \in 0..(k - 1) :
                                exportCandidate(dir, j) \in fs
                  /\ returned \notin fs
                  /\ fs' = fs \cup {returned}
       /\ (impl = "SpritesheetExporter" /\ pc = "se_export" /\ se.forceNew
              /\ (IF se.spritesExportDir = DefaultPath THEN SheetSprites
                  ELSE se.spritesExportDir) \in fs) =>
              LET dir == IF se.spritesExportDir = DefaultPath
                         THEN SheetSprites ELSE se.spritesExportDir
                  returned == se'.spritesExportDir
              IN  /\ \E k \in 0..Cardinality(fs) :
                         /\ returned = exportCandidate(dir, k)
                         /\ \A j \in 0..(k - 1) :
                                exportCandidate(dir, j) \in fs
                  /\ returned \notin fs
                  /\ fs' = fs \cup {returned}
                  /\ se'.addedFolder
       /\ (impl = "SpritesheetExporter" /\ pc \in {"se_pack", "se_place"}) =>
              /\ fs' \subseteq fs
              /\ (fs' # fs) => (se.addedFolder
                                   /\ fs \ fs' = {se.spritesExportDir})]_vars

\* The Exporter found its frames directory and the candidates 0 and 1
\* existing, force-new set, and created and returned the candidate 2.
C21_ThirdCandidate ==
    /\ impl = "Exporter"
    /\ exp.frame_export.set /\ exp.frame_export.force_new
    /\ ~exp.frame_export.custom_dir
    /\ Len(calls) >= 2
    /\ calls[Len(calls) - 1] = <<"exists", ExportSprites, TRUE>>
    /\ calls[Len(calls)] =
           <<"_make_frames_dir", exportCandidate(ExportSprites, 2)>>
    /\ fs = {ExportSprites, exportCandidate(ExportSprites, 0),
             exportCandidate(ExportSprites, 1),
             exportCandidate(ExportSprites, 2)}

\* The times start, start + step, ... up to the largest that is <= end.
SteppedTimes(start, end, step) ==
    IF step >= 1 /\ start <= end
    THEN [k \in 1..((end - start) \div step + 1) |-> start + (k - 1) * step]
    ELSE <<>>

\* C22: in timeline mode every time visited lies in start..end; with
\* step >= 1 the times visited are exactly start, start + step, ... up to the
\* largest such value <= end, in increasing order, one frame per time, so
\* that without unique-frames and with start <= end the frame count is
\* floor((end - start) / step) + 1. In the Exporter the frames are the nodes
\* of the sheet, named by their time; in SpritesheetExporter the image files
\* exported.
C22_SteppedTimes ==
    /\ (impl = "Exporter" /\ ~exp.layers_as_animation /\ ~exp.unique_frames
           /\ pc \in {"pack", "process_frames", "done"}) =>
          /\ \A k \in 1..Len(sheet.nodes) :
                 sheet.nodes[k].name \in frames.start..frames.end
          /\ (frames.step >= 1) =>
                 /\ [k \in 1..Len(sheet.nodes) |-> sheet.nodes[k].name]
                        = SteppedTimes(frames.start, frames.end, frames.step)
                 /\ (frames.start <= frames.end) =>
                        Len(sheet.nodes) =
                            (frames.end - frames.start) \div frames.step + 1
    /\ (impl = "SpritesheetExporter" /\ ~se.layersAsAnimation
           /\ calls # <<>> /\ doc.active) =>
          LET times == SteppedTimes(se.start, se.end, se.step)
          IN  se.exported = {times[k] : k \in 1..Len(times)}

\* SpritesheetExporter.export with start = 0, end = 1, step = 1 entered has
\* raised TypeError at the first call of exportFrame: no frame is exported.
C22_SeNoFrameExported ==
    /\ impl = "SpritesheetExporter"
    /\ pc = "TypeError"
    /\ ~se.layersAsAnimation
    /\ se.start = 0 /\ se.end = 1 /\ se.step = 1
    /\ se.exported = {}

\* The confirm handler has applied the values the dialog shows now: the
\* dialog is still disabled and the export it started is running.
JustConfirmed == impl = "Exporter" /\ ui.exporting > 0 /\ ~ui.enabled

\* C23: after confirm the configuration Exporter.export reads holds the
\* values entered in the dialog: an entered start and end and the step in
\* frames, the per-edge padding in pad, the image-sequence settings in
\* frame_export.
C23_SettingsForwarded ==
    JustConfirmed =>
        /\ (ui.widgets.start # DEFAULT_TIME) =>
               frames.start = ui.widgets.start
        /\ (ui.widgets.end # DEFAULT_TIME) => frames.end = ui.widgets.end
        /\ frames.step = ui.widgets.step
        /\ exp.pad = ui.widgets.pad
        /\ exp.frame_export.set = ui.widgets.frames_checked
        /\ ui.widgets.frames_checked =>
               /\ exp.frame_export.custom_dir = ui.widgets.custom_dir
               /\ exp.frame_export.force_new = ui.widgets.force_new

\* Confirmed with start = 1, a padding and the image sequence entered: the
\* values are in the attributes start, pad_left and export_frame_sequence of
\* the exporter, while frames, pad and frame_export, which export reads, are
\* as before.
C23_WrittenBesideTheFields ==
    /\ JustConfirmed
    /\ ui.widgets.start = 1 /\ exp.extra.start = 1
    /\ ui.widgets.pad.left = 1 /\ exp.extra.pad_left = 1
    /\ ui.widgets.frames_checked /\ exp.extra.export_frame_sequence
    /\ exp.extra.base_name = "frame"
    /\ frames.start # 1
    /\ exp.pad = NoPad
    /\ exp.frame_export = NoFrameExport

\* The columns and the rows of the sheet of the Exporter that hold a frame,
\* counted from 0.
UsedColumns ==
    {c \in 0..(exp.columns - 1) :
        \E k \in 1..Len(sheet.nodes) :
            sheet.nodes[k].x = c * padded_width(doc, exp.pad)}
UsedRows ==
    {r \in 0..(exp.rows - 1) :
        \E k \in 1..Len(sheet.nodes) :
            sheet.nodes[k].y = r * padded_height(doc, exp.pad)}

\* C24: after an export of the Exporter with a fixed columns or rows value
\* and n >= 1 frames, in either fill direction, every column and every row
\* of the final grid holds a frame.
C24_NoEmptyColumnOrRow ==
    (impl = "Exporter" /\ pc = "done" /\ Len(sheet.nodes) >= 1
        /\ (in0.columns # DEFAULT_SPACE \/ in0.rows # DEFAULT_SPACE)) =>
        /\ UsedColumns = 0..(exp.columns - 1)
        /\ UsedRows = 0..(exp.rows - 1)

\* Five frames, four columns fixed, vertical fill: the grid is 4 by 2, the
\* frames fill the columns 0 to 2 and the fourth column is empty.
C24_EmptyFourthColumn ==
    /\ impl = "Exporter" /\ pc = "done"
    /\ Len(sheet.nodes) = 5
    /\ in0.columns = 4
    /\ ~exp.horizontal
    /\ exp.columns = 4 /\ exp.rows = 2
    /\ UsedColumns = 0..2

C26_PlacementInjective ==
    pc \in {"done", "se_done", "FileNotFoundError"} =>
        \A j \in 1..Len(sheet.nodes) : \A k \in 1..Len(sheet.nodes) :
            j # k => <<sheet.nodes[j].x, sheet.nodes[j].y>>
                         # <<sheet.nodes[k].x, sheet.nodes[k].y>>

\* Both backends finish an export of several frames that wraps into a second
\* line of the grid, in vertical fill as well.
C26_SecondLineFilled ==
    /\ pc \in {"done", "se_done"}
    /\ Len(sheet.nodes) >= 3
    /\ \E j \in 1..Len(sheet.nodes) : \E k \in 1..Len(sheet.nodes) :
          /\ j # k
          /\ sheet.nodes[j].x = sheet.nodes[k].x
          /\ sheet.nodes[j].y # sheet.nodes[k].y
    /\ \E j \in 1..Len(sheet.nodes) : \E k \in 1..Len(sheet.nodes) :
          /\ j # k
          /\ sheet.nodes[j].y = sheet.nodes[k].y
          /\ sheet.nodes[j].x # sheet.nodes[k].x

\* C27: every timeline-mode export of the Exporter collects at least one
\* frame: for any start and end (entered or default), any entered step >= 1
\* and any document, the range iterated after resolution is non-empty and
\* the frame count handed to the grid sizing is >= 1.
C27_AtLeastOneFrame ==
    (impl = "Exporter" /\ doc.active /\ TimelineMode /\ in0.step >= 1
        /\ pc \in {"pack", "ZeroDivisionError", "process_frames", "done"}) =>
        /\ PyRange(frames.start, frames.end + 1, frames.step) # <<>>
        /\ ExporterFrameCount >= 1

\* Both bounds entered with start = 1 above end = 0: the range is iterated as
\* entered, range(1, 1, 1) is empty, no frame is read and the grid sizing,
\* with columns entered, divides by min(columns, 0) = 0.
C27_NoFrameCollected ==
    /\ impl = "Exporter" /\ doc.active /\ TimelineMode
    /\ in0.start = 1 /\ in0.end = 0 /\ in0.step = 1
    /\ in0.columns # DEFAULT_SPACE
    /\ frames = [start |-> 1, end |-> 0, step |-> 1]
    /\ PixelReads = <<>>
    /\ ExporterFrameCount = 0
    /\ pc = "ZeroDivisionError"

\* C28: FrameTimes.set_frame_times only fills in default bounds: a start the
\* user entered (start # -1) has the same value after resolution as before,
\* and so has an entered end, for every document and layer configuration.
C28_EnteredBoundsKept ==
    pc = "resolved" =>
        /\ in0.start # DEFAULT_TIME => frames.start = in0.start
        /\ in0.end # DEFAULT_TIME => frames.end = in0.end

\* Start = 2 entered, end default, on a document without a visible animated
\* layer whose clip end is not 2: the resolver returns start = 0, end = 0.
C28_EnteredStartReplaced ==
    /\ pc = "resolved"
    /\ in0.start = 2
    /\ in0.end = DEFAULT_TIME
    /\ doc.clipEnd # 2
    /\ ~HasVisibleAnimatedLayer
    /\ frames.start = 0
    /\ frames.end = 0

\* C29: when both bounds are default and the document has at least one
\* visible animated layer, the range set_frame_times resolves stays inside
\* the full clip range: min(clipStart, clipEnd) <= start <= end <=
\* max(clipStart, clipEnd).
C29_InsideClipRange ==
    (impl = "Exporter" /\ pc = "resolved"
        /\ in0.start = DEFAULT_TIME /\ in0.end = DEFAULT_TIME
        /\ HasVisibleAnimatedLayer) =>
        /\ Min2(doc.clipStart, doc.clipEnd) <= frames.start
        /\ frames.start <= frames.end
        /\ frames.end <= Max2(doc.clipStart, doc.clipEnd)

\* Both bounds default on a clip range 0..2 with a visible animated layer
\* that has keyframes at 1 and beyond the clip end, at 3: the range resolves
\* to the single frame 1.
C29_KeyframeBeyondClipEnd ==
    /\ impl = "Exporter" /\ pc = "resolved"
    /\ in0.start = DEFAULT_TIME /\ in0.end = DEFAULT_TIME
    /\ doc.clipStart = 0 /\ doc.clipEnd = 2
    /\ \E i \in 1..Len(doc.layers) :
          /\ doc.layers[i].visible /\ doc.layers[i].animated
          /\ doc.layers[i].keys = {1, 3}
    /\ frames.start = 1
    /\ frames.end = 1

\* C30: timeline-mode frame collection leaves the current time of the source
\* document unchanged: after Exporter._copy_frames returns the current time
\* equals its value before the call, whatever range was iterated and whether
\* or not frames were skipped as duplicates.
C30_CurrentTimeRestored ==
    [][(impl = "Exporter" /\ pc = "copy_frames")
          => doc'.currentTime = doc.currentTime]_vars

\* A document at time 2 after _copy_frames visited the times 0, 1, 3 last
\* and skipped every frame but the first as a duplicate.
C30_BackAtTwo ==
    /\ impl = "Exporter" /\ pc = "pack"
    /\ TimelineMode /\ exp.unique_frames
    /\ doc.currentTime = 2
    /\ frames.start = 0 /\ frames.end = 3 /\ frames.step = 1
    /\ Len(PixelReads) = 4
    /\ ExporterFrameCount = 1
    /\ calls[Len(calls)] = <<"setCurrentTime", 2>>
    /\ calls[Len(calls) - 3] = <<"setCurrentTime", 3>>

====
